---- MODULE Spec2Model ----
(***************************************************************************)
(* A model of mlir/utils/spirv/gen_spirv_dialect.py: the generator that    *)
(* regenerates the SPIR-V dialect's TableGen definitions (enum attributes, *)
(* the opcode enum, op definitions) from the SPIR-V grammar and merges     *)
(* them into SPIRVBase.td and the ops file.                                *)
(*                                                                         *)
(* Short pieces of text whose only use is their length or their identity   *)
(* are TLA+ strings.  Text that the code splits, scans or strips is a      *)
(* sequence of tokens: a token is a single character where the code looks  *)
(* at characters ("<", "]", a newline) and a longer literal elsewhere.     *)
(***************************************************************************)
EXTENDS Integers, Sequences, FiniteSets, TLC

VARIABLES
  baseFile,   \* the text of SPIRVBase.td (--base-td-path)
  opsFile,    \* the text of the ops file (--op-td-path)
  pc,         \* where the running invocation stands
  err,        \* the error that ended the last step, "none" when it succeeded
  lastOp,     \* the update function that ran last
  lastArgs,   \* the arguments it was called with: filter_list, inst_category
  prevBase,   \* baseFile before the last update function or mode ran
  prevOps,    \* opsFile before the last update function or mode ran
  startBase,  \* baseFile when the running invocation started
  startOps,   \* opsFile when the running invocation started
  modes,      \* the command line of the running invocation
  inp,        \* the argument of a function applied on its own
  out         \* what that function returned

vars == <<baseFile, opsFile, pc, err, lastOp, lastArgs, prevBase, prevOps,
          startBase, startOps, modes, inp, out>>

fileVars == <<baseFile, opsFile, err, lastOp, lastArgs, prevBase, prevOps,
              startBase, startOps, modes>>

NoFiles ==
  /\ baseFile = <<>> /\ opsFile = <<>> /\ err = "none" /\ lastOp = "none"
  /\ lastArgs = <<>> /\ prevBase = <<>> /\ prevOps = <<>>
  /\ startBase = <<>> /\ startOps = <<>> /\ modes = <<>>

(***************************************************************************)
(* Python's list and string primitives, as the code uses them.             *)
(***************************************************************************)

\* Body(value) for a value that is computed once, as an assignment does
Bind(value, Body(_)) == CHOOSE result \in {Body(v) : v \in {value}} : TRUE

RECURSIVE SeqMap(_, _)
\* [f(x) for x in s]
SeqMap(F(_), s) ==
  Bind(s, LAMBDA lst :
    IF lst = <<>> THEN <<>>
    ELSE <<F(Head(lst))>> \o SeqMap(F, Tail(lst)))

\* the elements of a list
Range(s) == Bind(s, LAMBDA lst : {lst[i] : i \in 1..Len(lst)})

RECURSIVE Concat(_)
\* ''.join(parts) for parts that are token sequences
Concat(parts) ==
  Bind(parts, LAMBDA lst :
    IF lst = <<>> THEN <<>> ELSE Head(lst) \o Concat(Tail(lst)))

RECURSIVE Join(_, _)
\* sep.join(parts) for token sequences
Join(sep, parts) ==
  Bind(parts, LAMBDA lst :
    IF lst = <<>> THEN <<>>
    ELSE IF Len(lst) = 1 THEN lst[1]
    ELSE lst[1] \o sep \o Join(sep, Tail(lst)))

RECURSIVE JoinStr(_, _)
\* sep.join(parts) for strings
JoinStr(sep, parts) ==
  Bind(parts, LAMBDA lst :
    IF lst = <<>> THEN ""
    ELSE IF Len(lst) = 1 THEN lst[1]
    ELSE lst[1] \o sep \o JoinStr(sep, Tail(lst)))

RECURSIVE Rep(_, _)
\* ch * n
Rep(ch, n) == IF n <= 0 THEN "" ELSE ch \o Rep(ch, n - 1)

\* whether pat occurs in s at position i
OccursAt(s, pat, i) ==
  /\ i >= 1
  /\ i + Len(pat) - 1 <= Len(s)
  /\ \A k \in 1..Len(pat) : s[i + k - 1] = pat[k]

\* s.find(pat): the first position of pat in s, 0 when there is none
Find(s, pat) ==
  Bind(s, LAMBDA str :
    Bind({i \in 1..Len(str) : OccursAt(str, pat, i)}, LAMBDA hits :
      IF hits = {} THEN 0 ELSE CHOOSE i \in hits : \A j \in hits : i <= j))

\* s.split(pat, 1): one element, or the text before and after the first pat
SplitOnce(s, pat) ==
  Bind(s, LAMBDA str :
    Bind(Find(str, pat), LAMBDA p :
      IF p = 0 THEN <<str>>
      ELSE <<SubSeq(str, 1, p - 1), SubSeq(str, p + Len(pat), Len(str))>>))

RECURSIVE SplitAll(_, _)
\* s.split(pat): the texts between the non-overlapping occurrences of pat
SplitAll(s, pat) ==
  Bind(s, LAMBDA str :
    Bind(Find(str, pat), LAMBDA p :
      IF p = 0 THEN <<str>>
      ELSE <<SubSeq(str, 1, p - 1)>>
             \o SplitAll(SubSeq(str, p + Len(pat), Len(str)), pat)))

RECURSIVE RStrip(_, _)
\* s.rstrip(chars): chars is a SET of characters in Python, not a suffix
RStrip(s, chars) ==
  Bind(s, LAMBDA str :
    IF str # <<>> /\ str[Len(str)] \in chars
    THEN RStrip(SubSeq(str, 1, Len(str) - 1), chars)
    ELSE str)

RECURSIVE LStrip(_, _)
\* s.lstrip(chars)
LStrip(s, chars) ==
  Bind(s, LAMBDA str :
    IF str # <<>> /\ str[1] \in chars THEN LStrip(Tail(str), chars) ELSE str)

\* s.strip(chars)
Strip(s, chars) == RStrip(LStrip(s, chars), chars)

\* max(lst) of a non-empty list of numbers
Max(S) == CHOOSE m \in S : \A n \in S : n <= m

(***************************************************************************)
(* split_list_into_sublists                                                *)
(***************************************************************************)

\* the 80 of "if chunk_len > 80"
LineBudget == 80

\* a variant: the running length forgets the item that opened the chunk
ChunkLenAfterFlush_forgets(item) == 0

\* chunk_len = len(item) + 2, after a full chunk was put away
ChunkLenAfterFlush(item) == Len(item) + 2

RECURSIVE SplitLoop(_, _, _, _, _)
\* the for loop of split_list_into_sublists, from item i on
SplitLoop(items, i, chuncks, chunk, chunk_len) ==
  IF i > Len(items)
  THEN IF Len(chunk) # 0 THEN Append(chuncks, chunk) ELSE chuncks
  ELSE LET item == items[i]
           grown == chunk_len + Len(item) + 2
       IN IF grown > LineBudget
          THEN SplitLoop(items, i + 1, Append(chuncks, chunk), <<item>>,
                         ChunkLenAfterFlush(item))
          ELSE SplitLoop(items, i + 1, chuncks, Append(chunk, item), grown)

\* offset is not used by the code
split_list_into_sublists(items, offset) == SplitLoop(items, 1, <<>>, <<>>, 0)

\* the items a caller can pass: short ones, ones that fill half a line, ones
\* around the budget and one beyond it
MaxItems == 3

ItemPool ==
  {Rep("a", 1), Rep("b", 38), Rep("c", 39), Rep("d", 78), Rep("e", 80),
   Rep("f", 81)}

SeqsUpTo(S, n) == UNION {[1..k -> S] : k \in 0..n}

InitPack ==
  /\ NoFiles
  /\ pc = "call"
  /\ inp \in SeqsUpTo(ItemPool, MaxItems)
  /\ out = <<>>

CallSplit ==
  /\ pc = "call"
  /\ pc' = "returned"
  /\ out' = split_list_into_sublists(inp, 6)
  /\ UNCHANGED <<fileVars, inp>>

NextPack == CallSplit

SpecPack == InitPack /\ [][NextPack]_vars

\* C7: every sublist split_list_into_sublists returns is, joined with ', ',
\* at most 80 characters long, unless it is exactly one item that alone is
\* longer than 80; and the sublists hold the items of the input, unchanged
\* and in order, so that such an item is alone on its line as it was given.
C7_LineWrapBoundary ==
  pc = "returned" =>
    /\ \A k \in 1..Len(out) :
         \/ Len(JoinStr(", ", out[k])) <= LineBudget
         \/ Len(out[k]) = 1 /\ Len(out[k][1]) > LineBudget
    /\ Concat(out) = inp

C7_Witness ==
  /\ pc = "returned"
  /\ \E k \in 1..Len(out) : Len(out[k]) = 1 /\ Len(out[k][1]) > LineBudget
  /\ \E k \in 1..Len(out) : Len(out[k]) >= 2

(***************************************************************************)
(* uniquify and gen_operand_kind_enum_attr                                 *)
(***************************************************************************)

RECURSIVE UniquifyLoop(_, _, _, _, _)
\* the for loop of uniquify, from element i on; ks[i] is equality_fn(lst[i])
UniquifyLoop(lst, ks, i, keys, unique_lst) ==
  IF i > Len(lst) THEN unique_lst
  ELSE IF ks[i] \notin keys
       THEN UniquifyLoop(lst, ks, i + 1, keys \cup {ks[i]},
                         Append(unique_lst, lst[i]))
       ELSE UniquifyLoop(lst, ks, i + 1, keys, unique_lst)

uniquify(lst, equality_fn(_)) ==
  UniquifyLoop(lst, SeqMap(equality_fn, lst), 1, {}, <<>>)

\* the operand kinds' names, and the upper-case letters of each
\* (''.join([c for c in kind_name if c >= 'A' and c <= 'Z']))
KindAcronym ==
  [StorageClass |-> "SC", MemoryAccess |-> "MA", IdRef |-> "IR",
   Dim |-> "D", Scope |-> "S"]

KindUniverse == DOMAIN KindAcronym

\* a variant: cases are told apart by symbol and value, not by value
EnumCaseKey_whole(x) == x

\* lambda x: x[1]
EnumCaseKey(x) == x[2]

\* kind_cases, after uniquify
KindCases(operand_kind) ==
  uniquify(SeqMap(LAMBDA case : <<case.enumerant, case.value>>,
                  operand_kind.enumerants),
           EnumCaseKey)

KindCategory(operand_kind) ==
  IF operand_kind.category = "BitEnum" THEN "Bit" ELSE "I32"

\* fmt_str.format(...) of one enum case
EnumCaseDef(operand_kind, case, max_len) ==
  "def SPV_" \o KindAcronym[operand_kind.kind] \o "_" \o case[1] \o " "
    \o Rep(" ", max_len + 1 - Len(case[1]) - 1) \o ":" \o " "
    \o KindCategory(operand_kind) \o "EnumAttrCase<\"" \o case[1] \o "\", "
    \o ToString(case[2]) \o ">;"

\* 'SPV_{acronym}_{symbol}'
EnumCaseName(operand_kind, case) ==
  "SPV_" \o KindAcronym[operand_kind.kind] \o "_" \o case[1]

\* case_defs, before the lines are joined
EnumCaseDefs(operand_kind) ==
  LET kind_cases == KindCases(operand_kind)
      max_len == Max({Len(kind_cases[i][1]) : i \in 1..Len(kind_cases)})
  IN SeqMap(LAMBDA case : EnumCaseDef(operand_kind, case, max_len),
            kind_cases)

\* case_names, split into sublists
EnumCaseNames(operand_kind) ==
  split_list_into_sublists(
    SeqMap(LAMBDA case : EnumCaseName(operand_kind, case),
           KindCases(operand_kind)), 6)

\* 'def SPV_{name}Attr', the text update_td_enum_attrs looks for
AttrDefToken(kind_name) == "def SPV_" \o kind_name \o "Attr"

\* the rest of enum_attr
EnumAttrTail(operand_kind) ==
  " :\n    " \o KindCategory(operand_kind) \o "EnumAttr<\""
    \o operand_kind.kind \o "\", \"valid SPIR-V " \o operand_kind.kind
    \o "\", [\n"
    \o JoinStr(",\n", SeqMap(LAMBDA sublist :
                               Rep(" ", 6) \o JoinStr(", ", sublist),
                             EnumCaseNames(operand_kind)))
    \o "\n    ]> {\n  let returnType = \"::mlir::spirv::"
    \o operand_kind.kind \o "\";\n  let convertFromStorage = "
    \o "\"static_cast<::mlir::spirv::" \o operand_kind.kind
    \o ">($_self.getInt())\";\n  let cppNamespace = \"::mlir::spirv\";\n}"

\* returns (kind_name, text); max() of no cases raises ValueError
gen_operand_kind_enum_attr(operand_kind) ==
  IF "enumerants" \notin DOMAIN operand_kind
  THEN [ok |-> TRUE, err |-> "none", kind_name |-> "", text |-> <<>>]
  ELSE IF operand_kind.enumerants = <<>>
  THEN [ok |-> FALSE, err |-> "ValueError", kind_name |-> "", text |-> <<>>]
  ELSE [ok |-> TRUE, err |-> "none", kind_name |-> operand_kind.kind,
        text |-> <<JoinStr("\n", EnumCaseDefs(operand_kind)), "\n\n",
                   AttrDefToken(operand_kind.kind),
                   EnumAttrTail(operand_kind)>>]

MaxEnumerants == 3

EnumerantPool ==
  {[enumerant |-> s, value |-> v] : s \in {"Input", "Output", "In"},
                                    v \in {1, 3}}

OperandKindPool ==
  {[kind |-> k, category |-> "Id"] : k \in {"IdRef"}}
  \cup {[kind |-> "StorageClass", category |-> c, enumerants |-> e] :
          c \in {"ValueEnum", "BitEnum"},
          e \in SeqsUpTo(EnumerantPool, MaxEnumerants)}

InitEnum ==
  /\ NoFiles
  /\ pc = "call"
  /\ inp \in OperandKindPool
  /\ out = <<>>

CallGenEnum ==
  /\ pc = "call"
  /\ pc' = "returned"
  /\ out' = LET r == gen_operand_kind_enum_attr(inp)
            IN IF r.ok /\ r.kind_name # ""
               THEN [ret |-> r, case_defs |-> EnumCaseDefs(inp),
                     case_names |-> EnumCaseNames(inp)]
               ELSE [ret |-> r, case_defs |-> <<>>, case_names |-> <<>>]
  /\ UNCHANGED <<fileVars, inp>>

NextEnum == CallGenEnum

SpecEnum == InitEnum /\ [][NextEnum]_vars

\* the declared cases of a kind that are the first with their value, in
\* the order of the declaration
FirstDeclared(enumerants) ==
  LET firsts == {i \in 1..Len(enumerants) :
                   \A j \in 1..(i - 1) :
                     enumerants[j].value # enumerants[i].value}
      RECURSIVE Pick(_)
      Pick(i) == IF i > Len(enumerants) THEN <<>>
                 ELSE IF i \in firsts
                      THEN <<enumerants[i]>> \o Pick(i + 1)
                      ELSE Pick(i + 1)
  IN Pick(1)

\* C6: the case list gen_operand_kind_enum_attr produces holds exactly one
\* case per distinct numeric value, the first-declared (symbol, value) pair
\* with that value, in declaration order, both in the case-definition lines
\* and in the aggregate list of case names.
C6_EnumerantDedup ==
  (pc = "returned" /\ out.ret.ok /\ out.ret.kind_name # "") =>
    LET firsts == FirstDeclared(inp.enumerants)
        max_len == Max({Len(firsts[i].enumerant) : i \in 1..Len(firsts)})
    IN /\ Len(firsts) = Cardinality({inp.enumerants[i].value :
                                        i \in 1..Len(inp.enumerants)})
       /\ out.case_defs =
            SeqMap(LAMBDA e : EnumCaseDef(inp, <<e.enumerant, e.value>>,
                                          max_len), firsts)
       /\ Concat(out.case_names) =
            SeqMap(LAMBDA e : EnumCaseName(inp, <<e.enumerant, e.value>>),
                   firsts)

C6_Witness ==
  /\ pc = "returned" /\ out.ret.ok /\ out.ret.kind_name # ""
  /\ Len(inp.enumerants) = 3
  /\ inp.enumerants[1].value = inp.enumerants[3].value
  /\ inp.enumerants[1].enumerant # inp.enumerants[3].enumerant
  /\ inp.enumerants[2].value # inp.enumerants[1].value
  /\ Len(out.case_defs) = 2

(***************************************************************************)
(* The grammar: what get_spirv_grammar_from_json_spec returns.  The model  *)
(* fixes a small grammar that takes every branch of the generators.        *)
(***************************************************************************)

\* spirv['operand_kinds']
OperandKinds ==
  << [kind |-> "StorageClass", category |-> "ValueEnum",
      enumerants |-> << [enumerant |-> "Input", value |-> 1],
                        [enumerant |-> "Output", value |-> 3],
                        [enumerant |-> "In", value |-> 1] >>],
     [kind |-> "IdRef", category |-> "Id"],
     [kind |-> "MemoryAccess", category |-> "BitEnum",
      enumerants |-> << [enumerant |-> "None", value |-> 0],
                        [enumerant |-> "Volatile", value |-> 1] >>] >>

\* spirv['instructions'].  An operand's name is a token sequence: a token is
\* a run of word characters or one other character.  The variadic IdScope of
\* OpControlBarrier and the operands of OpAtomicLoad are not the published
\* grammar's: they are there for the branches that reject an operand.
Instructions ==
  << [opname |-> "OpStore", opcode |-> 62,
      operands |-> << [kind |-> "IdRef", name |-> <<"'", "Pointer", "'">>],
                      [kind |-> "IdRef", name |-> <<"'", "Object", "'">>],
                      [kind |-> "MemoryAccess", quantifier |-> "?"] >>],
     [opname |-> "OpLoad", opcode |-> 61,
      operands |-> << [kind |-> "IdResultType"], [kind |-> "IdResult"],
                      [kind |-> "IdRef", name |-> <<"'", "Pointer", "'">>],
                      [kind |-> "MemoryAccess", quantifier |-> "?"] >>],
     [opname |-> "OpNop", opcode |-> 0],
     [opname |-> "OpControlBarrier", opcode |-> 224,
      operands |-> << [kind |-> "IdScope",
                       name |-> <<"'", "Execution", "'">>,
                       quantifier |-> "*"],
                      [kind |-> "IdMemorySemantics",
                       name |-> <<"'", "Semantics", "'">>] >>],
     [opname |-> "OpAtomicLoad", opcode |-> 227,
      operands |-> << [kind |-> "IdResultType"], [kind |-> "IdResult"],
                      [kind |-> "IdRef", name |-> <<"'", "Pointer", "'">>],
                      [kind |-> "IdScope", name |-> <<"'", "Scope", "'">>,
                       quantifier |-> "?"] >>] >>

\* what get_spirv_doc_from_html_spec returns: a text per opname, its first
\* line the summary.  The lines are short enough for textwrap to leave
\* them on one line; OpStore's summary is too long for a quoted string.
Docs ==
  [OpStore |-> <<"Store through a pointer, with the given memory access semantics.",
                 "\n", "Pointer is the pointer to store through.">>,
   OpLoad |-> <<"Load through a pointer.", "\n",
                "Result Type is the type of the loaded object.", "\n", "\n",
                "Pointer is the pointer to load through.">>,
   OpNop |-> <<"No operation.", "\n", "This has no semantic impact.">>,
   OpControlBarrier |-> <<"Wait for other invocations.", "\n",
                          "Execution is the scope of the barrier.">>,
   OpAtomicLoad |-> <<"Atomically load through Pointer.", "\n",
                      "Result Type is the type of the loaded object.">>]

\* every name a file or a command line of the model can hold, in the order
\* of Python's string comparison
SortedNames ==
  << "", "Dim", "IdRef", "MemoryAccess", "OpAtomicLoad", "OpControlBarrier",
     "OpLoad", "OpNop", "OpStore", "OpUndef", "StorageClass" >>

\* the place of a name in that order
NameRank(name) == CHOOSE i \in 1..Len(SortedNames) : SortedNames[i] = name

\* list.sort(key=...), which is stable; keys[i] is the key of lst[i]
StableSort(lst, keys) ==
  LET n == Len(lst)
      place(i) == Cardinality({j \in 1..n :
                                 \/ keys[j] < keys[i]
                                 \/ keys[j] = keys[i] /\ j < i}) + 1
  IN [p \in 1..n |-> lst[CHOOSE i \in 1..n : place(i) = p]]

\* [x for x in lst if keep(x)]
RECURSIVE FilterSeq(_, _)
FilterSeq(lst, keep) ==
  IF lst = <<>> THEN <<>>
  ELSE IF keep[1] THEN <<Head(lst)>> \o FilterSeq(Tail(lst), Tail(keep))
  ELSE FilterSeq(Tail(lst), Tail(keep))

(***************************************************************************)
(* update_td_enum_attrs                                                    *)
(***************************************************************************)

AUTOGEN_ENUM_SECTION_MARKER ==
  "enum section. Generated from SPIR-V spec; DO NOT MODIFY!"

AUTOGEN_OPCODE_SECTION_MARKER ==
  "opcode section. Generated from SPIR-V spec; DO NOT MODIFY!"

\* a variant: a third marker in the file passes
SectionSplitValid_atLeast(content) == Len(content) >= 3

\* assert len(content) == 3
SectionSplitValid(content) == Len(content) = 3

\* a variant: the definitions already in the region are not looked at
ExistingKinds_none(text) == <<>>

\* [k[8:-4] for k in re.findall('def SPV_\w+Attr', text)]
ExistingKinds(text) ==
  LET hit == [i \in 1..Len(text) |->
                \E k \in KindUniverse : text[i] = AttrDefToken(k)]
  IN SeqMap(LAMBDA tok : CHOOSE k \in KindUniverse : AttrDefToken(k) = tok,
            FilterSeq(text, hit))

\* a variant: the text after the end marker is not written back
EnumSubstitute_dropsSuffix(content, defs) ==
  content[1] \o <<AUTOGEN_ENUM_SECTION_MARKER, "\n\n">>
    \o Join(<<"\n\n">>, defs)
    \o <<"\n\n// End ", AUTOGEN_ENUM_SECTION_MARKER>>

\* content[0] + MARKER + '\n\n' + '\n\n'.join(defs) + "\n\n// End " + MARKER
\* + content[2]
EnumSubstitute(content, defs) ==
  content[1] \o <<AUTOGEN_ENUM_SECTION_MARKER, "\n\n">>
    \o Join(<<"\n\n">>, defs)
    \o <<"\n\n// End ", AUTOGEN_ENUM_SECTION_MARKER>> \o content[3]

\* the function up to its write: [ok, err, text], text being what it writes
update_td_enum_attrs(text, operand_kinds, requested) ==
  LET content == SplitAll(text, <<AUTOGEN_ENUM_SECTION_MARKER>>)
  IN IF ~SectionSplitValid(content)
     THEN [ok |-> FALSE, err |-> "AssertionError", text |-> <<>>]
     ELSE
       LET filter_list == requested \o ExistingKinds(content[2])
           chosen == FilterSeq(operand_kinds,
                       [i \in 1..Len(operand_kinds) |->
                          operand_kinds[i].kind \in Range(filter_list)])
           gens == SeqMap(gen_operand_kind_enum_attr, chosen)
           defs == StableSort(gens, SeqMap(LAMBDA enum :
                                             NameRank(enum.kind_name), gens))
       IN IF \E i \in 1..Len(gens) : ~gens[i].ok
          THEN [ok |-> FALSE, err |-> "ValueError", text |-> <<>>]
          ELSE [ok |-> TRUE, err |-> "none",
                text |-> EnumSubstitute(content,
                           SeqMap(LAMBDA enum : enum.text, defs))]

(***************************************************************************)
(* gen_opcode and update_td_opcodes                                        *)
(***************************************************************************)

\* 'def SPV_OC_{name}', the text update_td_opcodes looks for
OpcodeDefToken(opname) == "def SPV_OC_" \o opname

OpNameUniverse ==
  {"OpAtomicLoad", "OpControlBarrier", "OpLoad", "OpNop", "OpStore",
   "OpUndef"}

\* max() of no instructions raises ValueError
gen_opcode(instructions) ==
  IF instructions = <<>>
  THEN [ok |-> FALSE, err |-> "ValueError", text |-> <<>>]
  ELSE
    LET max_len == Max({Len(instructions[i].opname) :
                          i \in 1..Len(instructions)})
        opcode_defs == SeqMap(LAMBDA inst :
            << OpcodeDefToken(inst.opname),
               " " \o Rep(" ", max_len + 1 - Len(inst.opname) - 1) \o ":"
                 \o " I32EnumAttrCase<\"" \o inst.opname \o "\", "
                 \o ToString(inst.opcode) \o ">;" >>, instructions)
        opcode_list == split_list_into_sublists(
            SeqMap(LAMBDA inst : "SPV_OC_" \o inst.opname, instructions), 6)
        enum_attr ==
          "def SPV_OpcodeAttr :\n    I32EnumAttr<\"Opcode\", "
            \o "\"valid SPIR-V instructions\", [\n"
            \o JoinStr(",\n", SeqMap(LAMBDA sublist :
                                       Rep(" ", 6) \o JoinStr(", ", sublist),
                                     opcode_list))
            \o "\n      ]> {\n    let returnType = \"::mlir::spirv::Opcode\""
            \o ";\n    let convertFromStorage = "
            \o "\"static_cast<::mlir::spirv::Opcode>($_self.getInt())\";\n"
            \o "    let cppNamespace = \"::mlir::spirv\";\n}"
    IN [ok |-> TRUE, err |-> "none",
        text |-> Join(<<"\n">>, opcode_defs) \o <<"\n\n", enum_attr>>]

\* [k[11:] for k in re.findall('def SPV_OC_\w+', text)]
ExistingOpcodes(text) ==
  LET hit == [i \in 1..Len(text) |->
                \E n \in OpNameUniverse : text[i] = OpcodeDefToken(n)]
  IN SeqMap(LAMBDA tok :
              CHOOSE n \in OpNameUniverse : OpcodeDefToken(n) = tok,
            FilterSeq(text, hit))

\* content[0] + MARKER + '\n\n' + opcode + '\n\n// End ' + MARKER + content[2]
OpcodeSubstitute(content, opcode) ==
  content[1] \o <<AUTOGEN_OPCODE_SECTION_MARKER, "\n\n">> \o opcode
    \o <<"\n\n// End ", AUTOGEN_OPCODE_SECTION_MARKER>> \o content[3]

\* the function up to its write: [ok, err, text], text being what it writes
update_td_opcodes(text, instructions, requested) ==
  LET content == SplitAll(text, <<AUTOGEN_OPCODE_SECTION_MARKER>>)
  IN IF ~SectionSplitValid(content)
     THEN [ok |-> FALSE, err |-> "AssertionError", text |-> <<>>]
     ELSE
       LET filter_list == Range(requested \o ExistingOpcodes(content[2]))
           filter_instrs == FilterSeq(instructions,
                              [i \in 1..Len(instructions) |->
                                 instructions[i].opname \in filter_list])
           sorted == StableSort(filter_instrs,
                                SeqMap(LAMBDA inst : inst.opcode,
                                       filter_instrs))
           opcode == gen_opcode(sorted)
       IN IF ~opcode.ok
          THEN [ok |-> FALSE, err |-> opcode.err, text |-> <<>>]
          ELSE [ok |-> TRUE, err |-> "none",
                text |-> OpcodeSubstitute(content, opcode.text)]

(***************************************************************************)
(* The base file, and the two update functions run on it one at a time.    *)
(***************************************************************************)

\* a variant: the file is opened for writing before the text is generated
FileAfter_openedEarly(before, result) ==
  IF result.ok THEN result.text ELSE <<>>

\* with open(path, 'w') as f: f.write(content) is the last statement of an
\* update function: an error raised before it leaves the file as it was
FileAfter(before, result) == IF result.ok THEN result.text ELSE before

\* how many names a marked region holds before the run
MaxExisting == 2

\* how many names one call is asked for
MaxReq == 2

\* the sequences of at most n different elements of S
DistinctSeqs(S, n) ==
  {q \in SeqsUpTo(S, n) : \A i, j \in 1..Len(q) : q[i] = q[j] => i = j}

\* what a marked enum region holds for a kind: the text generated for it,
\* or for a kind the grammar gives no cases for, a definition left there
EnumRegionEntry(kind_name) ==
  LET known == {i \in 1..Len(OperandKinds) :
                  /\ OperandKinds[i].kind = kind_name
                  /\ "enumerants" \in DOMAIN OperandKinds[i]}
  IN IF known # {}
     THEN gen_operand_kind_enum_attr(
            OperandKinds[CHOOSE i \in known : TRUE]).text
     ELSE <<AttrDefToken(kind_name), " : SPV_I32EnumAttr<[]>;">>

OpcodeRegionEntry(opname) ==
  <<OpcodeDefToken(opname), " : I32EnumAttrCase<\"" \o opname \o "\", 1>;">>

\* a region with n occurrences of its marker around a body
MarkedRegion(marker, n, body) ==
  CASE n = 0 -> <<"// not generated\n">> \o body
    [] n = 1 -> <<"// Begin ", marker, "\n\n">> \o body
    [] n = 2 -> <<"// Begin ", marker, "\n\n">> \o body
                  \o <<"\n\n// End ", marker>>
    [] OTHER -> <<"// Begin ", marker, "\n\n">> \o body
                  \o <<"\n\n// End ", marker, "\n// see ", marker>>

BaseFileOf(ne, kinds, no, opnames) ==
  <<"// SPIRVBase.td\n\n">>
    \o MarkedRegion(AUTOGEN_ENUM_SECTION_MARKER, ne,
                    Join(<<"\n\n">>, SeqMap(EnumRegionEntry, kinds)))
    \o <<"\n\ndef SPV_Type : AnyTypeOf<[]>;\n\n">>
    \o MarkedRegion(AUTOGEN_OPCODE_SECTION_MARKER, no,
                    Join(<<"\n">>, SeqMap(OpcodeRegionEntry, opnames)))
    \o <<"\n\n// end of SPIRVBase.td\n">>

ExistingKindPool == {"StorageClass", "IdRef", "Dim"}
ExistingOpcodePool == {"OpLoad", "OpNop", "OpUndef"}

\* well-formed files with any names in their regions, and files whose
\* markers are missing or repeated
BaseFilePool ==
  {BaseFileOf(2, ks, 2, os) : ks \in DistinctSeqs(ExistingKindPool, MaxExisting),
                              os \in DistinctSeqs(ExistingOpcodePool, 1)}
  \cup {BaseFileOf(2, ks, 2, os) : ks \in DistinctSeqs(ExistingKindPool, 1),
                              os \in DistinctSeqs(ExistingOpcodePool, MaxExisting)}
  \cup {BaseFileOf(ne, <<"StorageClass">>, no, <<"OpNop">>) :
          ne \in 0..3, no \in 0..3}

EnumRequests == SeqsUpTo({"StorageClass", "MemoryAccess", "Dim"}, MaxReq)
OpcodeRequests == SeqsUpTo({"OpLoad", "OpStore", "OpUndef"}, MaxReq)

\* what one call of an update function on the base file leaves behind
BaseFileStep(result, requested, name) ==
  /\ baseFile' = FileAfter(baseFile, result)
  /\ err' = result.err
  /\ lastArgs' = [filter_list |-> requested]
  /\ lastOp' = name
  /\ prevBase' = baseFile
  /\ UNCHANGED <<opsFile, prevOps, startBase, startOps, modes, inp, out>>

\* a run with --new-enum: update_td_enum_attrs(path, operand_kinds, [...])
UpdateEnum ==
  /\ pc = "idle"
  /\ pc' = "ran"
  /\ \E requested \in EnumRequests :
       BaseFileStep(update_td_enum_attrs(baseFile, OperandKinds, requested),
                    requested, "update_td_enum_attrs")

\* a run with --new-opcodes: update_td_opcodes(path, instructions, [...])
UpdateOpcodes ==
  /\ pc = "idle"
  /\ pc' = "ran"
  /\ \E requested \in OpcodeRequests :
       BaseFileStep(update_td_opcodes(baseFile, Instructions, requested),
                    requested, "update_td_opcodes")

\* the same command line once more, after a run that succeeded
RerunEnum ==
  /\ pc = "ran" /\ err = "none" /\ lastOp = "update_td_enum_attrs"
  /\ pc' = "reran"
  /\ BaseFileStep(update_td_enum_attrs(baseFile, OperandKinds,
                                       lastArgs.filter_list),
                  lastArgs.filter_list, "update_td_enum_attrs")

RerunOpcodes ==
  /\ pc = "ran" /\ err = "none" /\ lastOp = "update_td_opcodes"
  /\ pc' = "reran"
  /\ BaseFileStep(update_td_opcodes(baseFile, Instructions,
                                    lastArgs.filter_list),
                  lastArgs.filter_list, "update_td_opcodes")

(***************************************************************************)
(* snake_casify and map_spec_operand_to_ods_argument                       *)
(***************************************************************************)

\* dict.get(key, default)
Get(dict, key, default) ==
  IF key \in DOMAIN dict THEN dict[key] ELSE default

\* the characters of the model's names that \W matches, and those among
\* them that str.split() takes for white space
NonWordChars == {"'", " ", "-", "<", ">"}
WhiteSpace == {" "}

\* str.lower() of the words of the model
Lower ==
  [Pointer |-> "pointer", Object |-> "object", Execution |-> "execution",
   Semantics |-> "semantics", Name |-> "name", Scope |-> "scope",
   Memory |-> "memory", Access |-> "access",
   IdRef |-> "idref", IdScope |-> "idscope",
   IdMemorySemantics |-> "idmemorysemantics",
   MemoryAccess |-> "memoryaccess", LiteralString |-> "literalstring",
   LiteralInteger |-> "literalinteger", StorageClass |-> "storageclass"]

RECURSIVE SplitWhite(_, _)
\* str.split(): the runs of tokens between white space; cur is the run read
SplitWhite(name, cur) ==
  IF name = <<>> THEN (IF cur = <<>> THEN <<>> ELSE <<cur>>)
  ELSE IF Head(name) \in WhiteSpace
       THEN (IF cur = <<>> THEN <<>> ELSE <<cur>>)
              \o SplitWhite(Tail(name), <<>>)
       ELSE SplitWhite(Tail(name), Append(cur, Head(name)))

\* re.sub('\W+', '', name).split(), each piece lowered, joined with '_'
snake_casify(name) ==
  Bind(name, LAMBDA given :
    Bind(FilterSeq(given, [i \in 1..Len(given) |->
                             given[i] \notin NonWordChars]), LAMBDA words :
      JoinStr("_", SeqMap(LAMBDA piece :
                            JoinStr("", SeqMap(LAMBDA w : Lower[w], piece)),
                          SplitWhite(words, <<>>)))))

UnimplementedKinds ==
  {"LiteralString", "LiteralContextDependentNumber", "LiteralExtInstInteger",
   "LiteralSpecConstantOpInteger", "PairLiteralIntegerIdRef",
   "PairIdRefLiteralInteger", "PairIdRefIdRef"}

QuantifierError ==
  "AssertionError: unexpected to have optional/variadic memory semantics or scope <id>"

\* a variant: the quantifier of a scope or memory semantics <id> is not
\* looked at
ScopeQuantifierOk_any(quantifier) == TRUE

\* assert quantifier == ''
ScopeQuantifierOk(quantifier) == quantifier = ""

\* the type of the argument, or the assertion that fails
OdsArgumentType(kind, quantifier) ==
  IF kind = "IdResultType"
  THEN [ok |-> FALSE,
        err |-> "AssertionError: unexpected to handle \"IdResultType\" kind"]
  ELSE IF kind = "IdResult"
  THEN [ok |-> FALSE,
        err |-> "AssertionError: unexpected to handle \"IdResult\" kind"]
  ELSE IF kind = "IdRef"
  THEN [ok |-> TRUE, err |-> "none",
        arg_type |-> IF quantifier = "" THEN "SPV_Type"
                     ELSE IF quantifier = "?" THEN "SPV_Optional<SPV_Type>"
                     ELSE "Variadic<SPV_Type>"]
  ELSE IF kind = "IdMemorySemantics" \/ kind = "IdScope"
  THEN IF ScopeQuantifierOk(quantifier)
       THEN [ok |-> TRUE, err |-> "none", arg_type |-> "I32"]
       ELSE [ok |-> FALSE, err |-> QuantifierError]
  ELSE IF kind = "LiteralInteger"
  THEN [ok |-> TRUE, err |-> "none",
        arg_type |-> IF quantifier = "" THEN "I32Attr"
                     ELSE IF quantifier = "?" THEN "OptionalAttr<I32Attr>"
                     ELSE "OptionalAttr<I32ArrayAttr>"]
  ELSE IF kind \in UnimplementedKinds
  THEN [ok |-> FALSE,
        err |-> "AssertionError: \"" \o kind \o "\" kind unimplemented"]
  ELSE IF quantifier = "*"
  THEN [ok |-> FALSE,
        err |-> "AssertionError: unexpected to have variadic enum attribute"]
  ELSE [ok |-> TRUE, err |-> "none",
        arg_type |-> IF quantifier = "?"
                     THEN "OptionalAttr<SPV_" \o kind \o "Attr>"
                     ELSE "SPV_" \o kind \o "Attr"]

\* [ok, err, text]: text is '{}:${}'.format(arg_type, name)
map_spec_operand_to_ods_argument(operand) ==
  Bind(operand, LAMBDA op :
    Bind(OdsArgumentType(op.kind, Get(op, "quantifier", "")), LAMBDA typed :
      IF ~typed.ok THEN [ok |-> FALSE, err |-> typed.err, text |-> ""]
      ELSE LET given == Get(op, "name", <<>>)
               name == IF given # <<>> THEN snake_casify(given)
                       ELSE Lower[op.kind]
           IN [ok |-> TRUE, err |-> "none",
               text |-> typed.arg_type \o ":$" \o name]))

\* the operands map_spec_operand_to_ods_argument is called with: a kind, a
\* quantifier or none, and a name or none; a name is up to MaxNameLen words
\* and characters between them
MaxNameLen == 3
NameTokens == {"Memory", "Access", " ", "'", "-"}
OperandNamePool == SeqsUpTo(NameTokens, MaxNameLen)
OperandKindNames ==
  {"IdRef", "IdScope", "LiteralInteger", "MemoryAccess", "LiteralString",
   "IdResult"}
OperandPool ==
  LET kinds == {[kind |-> k] : k \in OperandKindNames}
      quantified == {[kind |-> k, quantifier |-> q] :
                       k \in OperandKindNames, q \in {"?", "*"}}
  IN (kinds \cup quantified)
       \cup {[kind |-> op.kind, quantifier |-> Get(op, "quantifier", ""),
              name |-> name] :
               op \in kinds \cup quantified, name \in OperandNamePool}

InitOperand ==
  /\ NoFiles
  /\ pc = "call"
  /\ inp \in OperandPool
  /\ out = <<>>

CallMapOperand ==
  /\ pc = "call"
  /\ pc' = "returned"
  /\ out' = map_spec_operand_to_ods_argument(inp)
  /\ UNCHANGED <<fileVars, inp>>

NextOperand == CallMapOperand

SpecOperand == InitOperand /\ [][NextOperand]_vars

RECURSIVE WordsOf(_, _)
\* the words of a name: the runs of tokens between characters that are not
\* word characters; cur is the run read
WordsOf(name, cur) ==
  IF name = <<>> THEN (IF cur = <<>> THEN <<>> ELSE <<cur>>)
  ELSE IF Head(name) \in NonWordChars
       THEN (IF cur = <<>> THEN <<>> ELSE <<cur>>)
              \o WordsOf(Tail(name), <<>>)
       ELSE WordsOf(Tail(name), Append(cur, Head(name)))

\* the words of a name in lower case, with '_' between them
SnakeCase(name) ==
  JoinStr("_", SeqMap(LAMBDA word :
                        JoinStr("", SeqMap(LAMBDA w : Lower[w], word)),
                      WordsOf(name, <<>>)))

\* C12: the argument map_spec_operand_to_ods_argument returns is named by
\* the words of the operand's name, lowercased and separated by '_', and by
\* the lowercased kind when the operand has no name.
C12_SnakeCaseName ==
  (pc = "returned" /\ out.ok) =>
    LET given == Get(inp, "name", <<>>)
        arg_type == OdsArgumentType(inp.kind,
                                    Get(inp, "quantifier", "")).arg_type
    IN out.text = arg_type \o ":$"
                    \o (IF given # <<>> THEN SnakeCase(given)
                        ELSE Lower[inp.kind])

(***************************************************************************)
(* get_op_definition                                                       *)
(***************************************************************************)

AUTOGEN_OP_DEF_SEPARATOR == <<"\n", "// -----", "\n", "\n">>

\* the literals extract_td_op_info looks for
AssemblyStart == <<"### Custom assembly form", "\n">>
AssemblyEnd == <<"}", "]", ";", "\n">>
ArgumentsStart == <<" ", " ", "let arguments = (ins">>
ResultsStart == <<" ", " ", "let results = (outs">>
ListEnd == <<")", ";", "\n">>

\* instruction['opname'][2:], for the opnames of the model
ShortName ==
  [OpStore |-> "Store", OpLoad |-> "Load", OpNop |-> "Nop",
   OpControlBarrier |-> "ControlBarrier", OpAtomicLoad |-> "AtomicLoad",
   OpUndef |-> "Undef"]

\* 'def SPV_{opname}Op', the text extract_td_op_info looks for
OpDefToken(short) == "def SPV_" \o short \o "Op"

\* wrapper.fill(line), for a line that fits the width
TextWrapFill(line) == "    " \o line

\* the placeholder assembly; FENCE stands for the three backquotes of a
\* code fence, which a TLA+ string cannot hold
DefaultAssembly ==
  <<"\n", "    FENCE {.ebnf}", "\n", "    [TODO]", "\n", "    FENCE", "\n",
    "\n", "    For example:", "\n", "\n", "    FENCE", "\n", "    [TODO]",
    "\n", "    FENCE", "\n", " ", " ">>

\* the operands left once the result type and the result <id> are dropped
ArgumentOperands(instruction) ==
  LET operands == Get(instruction, "operands", <<>>)
      typed == IF Len(operands) > 0 /\ operands[1].kind = "IdResultType"
               THEN Tail(operands) ELSE operands
  IN IF Len(typed) > 0 /\ typed[1].kind = "IdResult"
     THEN Tail(typed) ELSE typed

\* arguments, when existing_info has none: [ok, err, text]
GeneratedArguments(instruction) ==
  Bind(SeqMap(map_spec_operand_to_ods_argument,
              ArgumentOperands(instruction)), LAMBDA mapped :
    Bind({i \in 1..Len(mapped) : ~mapped[i].ok}, LAMBDA failed :
      IF failed # {}
      THEN [ok |-> FALSE,
            err |-> mapped[CHOOSE i \in failed :
                             \A j \in failed : i <= j].err,
            text |-> <<>>]
      ELSE Bind(Join(<<",", "\n", "    ">>,
                     SeqMap(LAMBDA m : <<m.text>>, mapped)), LAMBDA joined :
             [ok |-> TRUE, err |-> "none",
              text |-> IF joined # <<>>
                       THEN <<"\n", "    ">> \o joined \o <<"\n", " ", " ">>
                       ELSE <<>>])))

\* summary: the first line of the doc, quoted when it fits the line
SummaryOf(summary_text) ==
  IF Len(summary_text) + Len("  let summary = \"\";") <= LineBudget
  THEN <<"\"", summary_text, "\"">>
  ELSE <<"[", "{", "\n", TextWrapFill(summary_text),
         "\n", " ", " ", "}", "]">>

\* description: the non-empty lines of the rest of the doc, each wrapped
DescriptionOf(text) ==
  Bind(SplitAll(text, <<"\n">>), LAMBDA lines :
    Join(<<"\n", "\n">>,
         SeqMap(LAMBDA line : <<TextWrapFill(JoinStr("", line))>>,
                FilterSeq(lines, [i \in 1..Len(lines) |->
                                    lines[i] # <<>>]))))

\* results, when existing_info has none
GeneratedResults(instruction) ==
  Bind(Get(instruction, "operands", <<>>), LAMBDA operands :
    IF Len(operands) > 0 /\ operands[1].kind = "IdResultType"
    THEN <<"\n", "    SPV_Type:$result", "\n", " ", " ">>
    ELSE <<>>)

\* [ok, err, text]: text is the TableGen op definition
get_op_definition(instruction, doc, existing_info, inst_category) ==
  Bind(existing_info, LAMBDA info :
  Bind(SplitOnce(doc, <<"\n">>), LAMBDA parts :
  Bind(IF "arguments" \in DOMAIN info
       THEN [ok |-> TRUE, err |-> "none", text |-> info.arguments]
       ELSE GeneratedArguments(instruction), LAMBDA arguments :
    IF Len(parts) # 2
    THEN [ok |-> FALSE, err |-> "ValueError", text |-> <<>>]
    ELSE IF ~arguments.ok
    THEN [ok |-> FALSE, err |-> arguments.err, text |-> <<>>]
    ELSE
      LET opname == ShortName[instruction.opname]
          category_args ==
            RStrip(Get(info, "category_args", <<>>), {",", " "})
              \o <<",", " ">>
          results == IF "results" \in DOMAIN info THEN info.results
                     ELSE GeneratedResults(instruction)
      IN [ok |-> TRUE, err |-> "none",
          text |->
            <<OpDefToken(opname), " : SPV_" \o inst_category, "<",
              "\"", opname, "\"">> \o category_args
            \o <<"[">> \o Get(info, "traits", <<>>)
            \o <<"]", ">", " ", "{", "\n", "  let summary = ">>
            \o SummaryOf(JoinStr("", parts[1]))
            \o <<";", "\n", "\n", "  let description = ", "[", "{", "\n">>
            \o DescriptionOf(parts[2])
            \o <<"\n", "\n", "    ">> \o AssemblyStart
            \o Get(info, "assembly", DefaultAssembly)
            \o AssemblyEnd
            \o (IF inst_category = "Op"
                THEN <<"\n">> \o ArgumentsStart \o arguments.text \o ListEnd
                       \o <<"\n">> \o ResultsStart \o results \o ListEnd
                ELSE <<>>)
            \o Get(info, "extras", <<>>) \o <<"}", "\n">>])))

(***************************************************************************)
(* get_string_between and extract_td_op_info                               *)
(***************************************************************************)

\* [ok, value, rest]; an end that is not found fails the assertion.
\* rest[0].rstrip(end) strips every trailing character that occurs in end
get_string_between(base, start, end) ==
  Bind(SplitOnce(base, start), LAMBDA split :
    IF Len(split) = 2
    THEN Bind(SplitOnce(split[2], end), LAMBDA rest :
           IF Len(rest) # 2
           THEN [ok |-> FALSE, value |-> <<>>, rest |-> <<>>]
           ELSE [ok |-> TRUE, value |-> RStrip(rest[1], Range(end)),
                 rest |-> rest[2]])
    ELSE [ok |-> TRUE, value |-> <<>>, rest |-> split[1]])

ShortNameUniverse == {ShortName[n] : n \in DOMAIN ShortName}

\* [o[8:-2] for o in re.findall('def SPV_\w+Op', op_def)]
OpNamesIn(op_def) ==
  Bind(op_def, LAMBDA text :
    SeqMap(LAMBDA tok :
             CHOOSE n \in ShortNameUniverse : OpDefToken(n) = tok,
           FilterSeq(text,
                     [i \in 1..Len(text) |->
                        \E n \in ShortNameUniverse :
                          text[i] = OpDefToken(n)])))

\* extras = rest.strip(' }\n'); if extras: extras = '\n  {}\n'.format(extras)
ExtrasOf(rest) ==
  Bind(Strip(rest, {" ", "}", "\n"}), LAMBDA extras :
    IF extras # <<>> THEN <<"\n", " ", " ">> \o extras \o <<"\n">>
    ELSE <<>>)

\* what a failing extract_td_op_info returns
ExtractFailed(e) == [ok |-> FALSE, err |-> e, info |-> <<>>]

\* the sections after the template parameters: [ok, err, info]
ExtractSections(op_def, opname, category_args, traits) ==
  Bind(get_string_between(op_def, AssemblyStart, AssemblyEnd),
       LAMBDA assembly :
    IF ~assembly.ok THEN ExtractFailed("AssertionError: cannot find end")
    ELSE
  Bind(get_string_between(assembly.rest, ArgumentsStart, ListEnd),
       LAMBDA args :
    IF ~args.ok THEN ExtractFailed("AssertionError: cannot find end")
    ELSE
  Bind(get_string_between(args.rest, ResultsStart, ListEnd),
       LAMBDA results :
    IF ~results.ok THEN ExtractFailed("AssertionError: cannot find end")
    ELSE [ok |-> TRUE, err |-> "none",
          info |-> [opname |-> "Op" \o opname,
                    category_args |-> category_args,
                    traits |-> traits,
                    assembly |-> assembly.value,
                    arguments |-> args.value,
                    results |-> results.value,
                    extras |-> ExtrasOf(results.rest)]])))

\* [ok, err, info]: info is the dict of the sections found in op_def
extract_td_op_info(op_def) ==
  Bind(op_def, LAMBDA text :
  Bind(OpNamesIn(text), LAMBDA opname :
  Bind(SplitOnce(text, <<"<">>), LAMBDA after_lt :
    IF Len(opname) # 1
    THEN ExtractFailed("AssertionError: more than one ops in the same section!")
    ELSE IF Len(after_lt) # 2 THEN ExtractFailed("IndexError")
    ELSE
  Bind(get_string_between(SplitOnce(after_lt[2], <<">">>)[1],
                          <<"\"">>, <<"\"">>), LAMBDA quoted :
    IF ~quoted.ok THEN ExtractFailed("AssertionError: cannot find end")
    ELSE
  Bind(get_string_between(quoted.rest, <<"[">>, <<"]">>), LAMBDA traits :
    IF ~traits.ok THEN ExtractFailed("AssertionError: cannot find end")
    ELSE ExtractSections(text, opname[1],
                         SplitOnce(quoted.rest, <<"[">>)[1],
                         traits.value))))))

(***************************************************************************)
(* update_td_op_definitions                                                *)
(***************************************************************************)

\* the names as they come, neither sorted nor made unique
SortedSet_asGiven(names) == names

\* sorted(list(set(names)))
SortedSet(names) ==
  Bind(Range(names), LAMBDA S :
    SeqMap(LAMBDA p :
             CHOOSE n \in S :
               Cardinality({m \in S : NameRank(m) < NameRank(n)}) + 1 = p,
           [p \in 1..Cardinality(S) |-> p]))

\* the definition of one op of the filter list: [ok, err, text]
OpDefinitionFor(opname, instructions, docs, op_info_dict, inst_category) ==
  Bind({i \in 1..Len(instructions) : instructions[i].opname = opname},
       LAMBDA found :
    IF found = {}
    THEN [ok |-> FALSE, err |-> "StopIteration", text |-> <<>>]
    ELSE IF opname \notin DOMAIN docs
    THEN [ok |-> FALSE, err |-> "KeyError", text |-> <<>>]
    ELSE get_op_definition(
           instructions[CHOOSE i \in found : \A j \in found : i <= j],
           docs[opname], Get(op_info_dict, opname, <<>>), inst_category))

\* op_defs = [header] + op_defs + [footer]; SEPARATOR.join(op_defs)
OpsSubstitute(header, op_defs, footer) ==
  Join(AUTOGEN_OP_DEF_SEPARATOR, <<header>> \o op_defs \o <<footer>>)

\* op_info_dict[opname] = info_dict: a later block replaces an earlier one
OpInfoDict(infos) ==
  Bind(SeqMap(LAMBDA e : e.info.opname, infos), LAMBDA existing :
    [n \in Range(existing) |->
       infos[CHOOSE i \in 1..Len(infos) :
               /\ existing[i] = n
               /\ \A j \in 1..Len(infos) : existing[j] = n => j <= i].info])

\* the generation and the substitution: [ok, err, text]
RegenerateOps(ops, infos, instructions, docs, requested, inst_category) ==
  Bind(OpInfoDict(infos), LAMBDA op_info_dict :
  Bind(SeqMap(LAMBDA opname :
                OpDefinitionFor(opname, instructions, docs, op_info_dict,
                                inst_category),
              SortedSet(requested
                          \o SeqMap(LAMBDA e : e.info.opname, infos))),
       LAMBDA op_defs :
  Bind({i \in 1..Len(op_defs) : ~op_defs[i].ok}, LAMBDA failed :
    IF failed # {}
    THEN [ok |-> FALSE,
          err |-> op_defs[CHOOSE i \in failed : \A j \in failed : i <= j].err,
          text |-> <<>>]
    ELSE [ok |-> TRUE, err |-> "none",
          text |-> OpsSubstitute(ops[1],
                                 SeqMap(LAMBDA d : d.text, op_defs),
                                 ops[Len(ops)])])))

\* the function up to its write: [ok, err, text], text being what it writes
update_td_op_definitions(text, instructions, docs, requested, category) ==
  Bind(SplitAll(text, AUTOGEN_OP_DEF_SEPARATOR), LAMBDA ops :
  Bind(SeqMap(extract_td_op_info, SubSeq(ops, 2, Len(ops) - 1)),
       LAMBDA infos :
  Bind({i \in 1..Len(infos) : ~infos[i].ok}, LAMBDA bad :
    IF bad # {}
    THEN [ok |-> FALSE,
          err |-> infos[CHOOSE i \in bad : \A j \in bad : i <= j].err,
          text |-> <<>>]
    ELSE RegenerateOps(ops, infos, instructions, docs, requested,
                       category))))

(***************************************************************************)
(* The ops file, and runs of the three update functions, one per command   *)
(* line, each followed at most by the same command line once more.         *)
(***************************************************************************)

\* an op definition as a maintainer left it: the generated layout with the
\* given text in the hand-written sections
WrittenBlock(short, fields) ==
  <<OpDefToken(short), " : SPV_Op", "<", "\"", short, "\"">>
    \o fields.category_args \o <<"[">> \o fields.traits
    \o <<"]", ">", " ", "{", "\n", "  let summary = ", "\"",
         "An older summary.", "\"", ";", "\n", "\n", "  let description = ",
         "[", "{", "\n", "    An older description.", "\n", "\n", "    ">>
    \o AssemblyStart \o fields.assembly \o AssemblyEnd
    \o <<"\n">> \o ArgumentsStart \o fields.arguments \o ListEnd
    \o <<"\n">> \o ResultsStart \o fields.results \o ListEnd
    \o fields.extras \o <<"}", "\n">>

\* hand-written sections that end in blanks, as the generated ones do
CarefulFields ==
  [category_args |-> <<",", " ">>,
   traits |-> <<"NoSideEffect">>,
   assembly |-> <<"\n", "    hand-written assembly", "\n", " ", " ">>,
   arguments |-> <<"\n", "    SPV_AnyPtr:$ptr", "\n", " ", " ">>,
   results |-> <<"\n", "    SPV_Type:$value", "\n", " ", " ">>,
   extras |-> <<"\n", " ", " ", "let verifier = [{ return success(); }];",
                "\n">>]

\* the same, with the assembly form ending in a line break before "}];"
NewlineFields ==
  [CarefulFields EXCEPT
     !.assembly = <<"\n", "    hand-written assembly", "\n">>]

\* the blocks of the files of the model
BlockPool ==
  {WrittenBlock("Load", NewlineFields), WrittenBlock("Store", CarefulFields),
   WrittenBlock("ControlBarrier", CarefulFields)}

OpsHeader == <<"// SPIRVOps.td", "\n">>
OpsFooter == <<"#endif // SPIRV_OPS", "\n">>

OpsFileOf(blocks) == OpsSubstitute(OpsHeader, blocks, OpsFooter)

\* files of up to MaxExisting blocks in any order, the same op twice
\* included, and a file without any separator
OpsFilePool ==
  {OpsFileOf(blocks) : blocks \in SeqsUpTo(BlockPool, MaxExisting)}
  \cup {OpsHeader}

\* --new-inst with the default --inst-category, and one name at most with
\* another category
OpDefRequests ==
  {[filter_list |-> names, inst_category |-> "Op"] :
     names \in SeqsUpTo({"OpLoad", "OpControlBarrier", "OpAtomicLoad"},
                        MaxReq)
               \cup {<<"OpNop">>}}
  \cup {[filter_list |-> names, inst_category |-> "ArithmeticOp"] :
          names \in SeqsUpTo({"OpLoad", "OpNop"}, 1)}

Init ==
  /\ \/ baseFile \in BaseFilePool /\ opsFile = OpsFileOf(<<>>)
     \/ baseFile = BaseFileOf(2, <<>>, 2, <<>>) /\ opsFile \in OpsFilePool
  /\ pc = "idle" /\ err = "none" /\ lastOp = "none" /\ lastArgs = <<>>
  /\ prevBase = baseFile /\ prevOps = opsFile
  /\ startBase = baseFile /\ startOps = opsFile
  /\ modes = <<>> /\ inp = <<>> /\ out = <<>>

\* what one call of update_td_op_definitions leaves behind
OpsFileStep(result, requested, inst_category) ==
  /\ opsFile' = FileAfter(opsFile, result)
  /\ err' = result.err
  /\ lastArgs' = [filter_list |-> requested,
                  inst_category |-> inst_category]
  /\ lastOp' = "update_td_op_definitions"
  /\ prevOps' = opsFile
  /\ UNCHANGED <<baseFile, prevBase, startBase, startOps, modes, inp, out>>

\* a run with --new-inst and --inst-category
UpdateOpDefs ==
  /\ pc = "idle"
  /\ pc' = "ran"
  /\ \E args \in OpDefRequests :
       OpsFileStep(update_td_op_definitions(opsFile, Instructions, Docs,
                                            args.filter_list,
                                            args.inst_category),
                   args.filter_list, args.inst_category)

RerunOpDefs ==
  /\ pc = "ran" /\ err = "none" /\ lastOp = "update_td_op_definitions"
  /\ pc' = "reran"
  /\ OpsFileStep(update_td_op_definitions(opsFile, Instructions, Docs,
                                          lastArgs.filter_list,
                                          lastArgs.inst_category),
                 lastArgs.filter_list, lastArgs.inst_category)

Next ==
  \/ UpdateEnum \/ UpdateOpcodes \/ UpdateOpDefs
  \/ RerunEnum \/ RerunOpcodes \/ RerunOpDefs

Spec == Init /\ [][Next]_vars

\* the number of occurrences of a marker in a text
MarkerCount(text, marker) == Len(SplitAll(text, <<marker>>)) - 1

\* the marker of the update function that ran last
LastMarker ==
  IF lastOp = "update_td_enum_attrs" THEN AUTOGEN_ENUM_SECTION_MARKER
  ELSE AUTOGEN_OPCODE_SECTION_MARKER

\* C5: update_td_enum_attrs and update_td_opcodes abort with a fatal error
\* and write nothing whenever their marker does not occur exactly twice in
\* the file.
C5_MarkerSplitValidated ==
  (lastOp \in {"update_td_enum_attrs", "update_td_opcodes"}
     /\ MarkerCount(prevBase, LastMarker) # 2) =>
    (err = "AssertionError" /\ baseFile = prevBase)

C5_Witness ==
  /\ lastOp = "update_td_enum_attrs"
  /\ MarkerCount(prevBase, AUTOGEN_ENUM_SECTION_MARKER) = 3
  /\ MarkerCount(prevBase, AUTOGEN_OPCODE_SECTION_MARKER) = 2
  /\ err = "AssertionError"

(***************************************************************************)
(* Properties of update_td_op_definitions.                                 *)
(***************************************************************************)

\* the op definitions of an ops file: what lies between two separators
BlocksOf(text) ==
  Bind(SplitAll(text, AUTOGEN_OP_DEF_SEPARATOR), LAMBDA ops :
    SubSeq(ops, 2, Len(ops) - 1))

\* the opnames defined in an ops file, in the order of the file
BlockNames(text) ==
  SeqMap(LAMBDA short : "Op" \o short,
         Concat(SeqMap(OpNamesIn, BlocksOf(text))))

\* the last update function was update_td_op_definitions and it returned
OpDefsWritten ==
  pc # "idle" /\ lastOp = "update_td_op_definitions" /\ err = "none"

\* C10: after every successful update_td_op_definitions the blocks of the
\* file are in strictly ascending opname order, so no opname has two blocks.
C10_OneBlockPerOpname ==
  OpDefsWritten =>
    LET names == BlockNames(opsFile)
    IN \A i \in 1..Len(names) - 1 :
         NameRank(names[i]) < NameRank(names[i + 1])

\* a file with two blocks for one opname, a request that repeats a name,
\* and the new block written before the one kept
C10_Witness ==
  /\ OpDefsWritten
  /\ BlockNames(prevOps) = <<"OpStore", "OpStore">>
  /\ lastArgs.filter_list = <<"OpLoad", "OpLoad">>
  /\ BlockNames(opsFile) = <<"OpLoad", "OpStore">>

\* the instruction of the grammar has a scope or memory semantics <id>
\* operand that is optional or variadic
HasQuantifiedScope(opname) ==
  \E i \in 1..Len(Instructions) :
    /\ Instructions[i].opname = opname
    /\ \E k \in 1..Len(Get(Instructions[i], "operands", <<>>)) :
         LET operand == Instructions[i].operands[k]
         IN /\ operand.kind \in {"IdScope", "IdMemorySemantics"}
            /\ Get(operand, "quantifier", "") # ""

\* update_td_op_definitions ran last, whether it returned or not
OpDefsRan == pc # "idle" /\ lastOp = "update_td_op_definitions"

\* C8 as stated: whenever an op definition is generated for an instruction
\* with an optional or variadic scope or memory semantics <id>, generation
\* fails with the quantifier error and no text is produced.
C8_QuantifierAlwaysRejected ==
  (OpDefsRan
     /\ \E n \in Range(lastArgs.filter_list) \cup Range(BlockNames(prevOps)) :
          HasQuantifiedScope(n)) =>
    (err = QuantifierError /\ opsFile = prevOps)

\* C8, amended: the rejection happens when the arguments are mapped from the
\* grammar, that is for a requested instruction without a block in the file;
\* then generation fails with the quantifier error and nothing is written.
C8_QuantifierRejectedWhenMapped ==
  (OpDefsRan
     /\ \E n \in Range(lastArgs.filter_list) \ Range(BlockNames(prevOps)) :
          HasQuantifiedScope(n)) =>
    (err = QuantifierError /\ opsFile = prevOps)

\* OpControlBarrier, whose execution scope is variadic, asked for a file
\* that does not define it
C8_Witness ==
  /\ OpDefsRan
  /\ lastArgs.filter_list = <<"OpControlBarrier">>
  /\ BlockNames(prevOps) = <<"OpLoad">>
  /\ err = QuantifierError
  /\ opsFile = prevOps

\* the text between the first start and the end that follows it, as it is
TextBetween(base, start, end) ==
  Bind(SplitOnce(base, start), LAMBDA split :
    IF Len(split) = 2 THEN SplitOnce(split[2], end)[1] ELSE <<>>)

\* the hand-written sections of an op definition, character for character
HandWritten(op_def) ==
  [traits |-> TextBetween(op_def, <<"[">>, <<"]">>),
   assembly |-> TextBetween(op_def, AssemblyStart, AssemblyEnd),
   arguments |-> TextBetween(op_def, ArgumentsStart, ListEnd),
   results |-> TextBetween(op_def, ResultsStart, ListEnd)]

\* C2: the block update_td_op_definitions writes for an op the file already
\* defines has the traits, assembly form, arguments and results of the
\* block before the run, character for character.
C2_HandWrittenFieldsKept ==
  OpDefsWritten =>
    \A old \in Range(BlocksOf(prevOps)), new \in Range(BlocksOf(opsFile)) :
      OpNamesIn(old) = OpNamesIn(new) => HandWritten(old) = HandWritten(new)

(***************************************************************************)
(* Properties of the three update functions.                               *)
(***************************************************************************)

\* the text before the first and after the last occurrence of a separator
Outside(text, sep) ==
  Bind(SplitAll(text, sep), LAMBDA parts : <<parts[1], parts[Len(parts)]>>)

\* C3: a successful update leaves the text before the start marker and after
\* the end marker as it was, and update_td_op_definitions the header before
\* the first separator and the footer after the last.
C3_OutsideUntouched ==
  (pc # "idle" /\ err = "none") =>
    IF lastOp = "update_td_op_definitions"
    THEN Outside(opsFile, AUTOGEN_OP_DEF_SEPARATOR)
           = Outside(prevOps, AUTOGEN_OP_DEF_SEPARATOR)
    ELSE Outside(baseFile, <<LastMarker>>) = Outside(prevBase, <<LastMarker>>)

\* the enum section rewritten, the opcode section after it
C3_Witness ==
  /\ pc = "ran" /\ err = "none" /\ lastOp = "update_td_enum_attrs"
  /\ baseFile # prevBase
  /\ MarkerCount(Outside(prevBase, <<AUTOGEN_ENUM_SECTION_MARKER>>)[2],
                 AUTOGEN_OPCODE_SECTION_MARKER) = 2
  /\ ExistingOpcodes(baseFile) # <<>>

\* C1: the second of two runs with the same arguments leaves the file as the
\* first run left it.
C1_RegenerationIdempotent ==
  pc = "reran" => (err = "none" /\ baseFile = prevBase /\ opsFile = prevOps)

\* the region of the last update function in the file before it ran
PrevRegion == SplitAll(prevBase, <<LastMarker>>)[2]

\* no name was asked for, and no name of the region is in the grammar
NothingToEmit ==
  /\ lastArgs.filter_list = <<>>
  /\ IF lastOp = "update_td_enum_attrs"
     THEN \A i \in 1..Len(OperandKinds) :
            OperandKinds[i].kind \notin Range(ExistingKinds(PrevRegion))
     ELSE \A i \in 1..Len(Instructions) :
            Instructions[i].opname \notin Range(ExistingOpcodes(PrevRegion))

\* C9: with nothing to emit update_td_enum_attrs and update_td_opcodes
\* succeed and write both markers around an empty body.
C9_EmptyRegionValid ==
  (pc = "ran" /\ lastOp \in {"update_td_enum_attrs", "update_td_opcodes"}
     /\ MarkerCount(prevBase, LastMarker) = 2 /\ NothingToEmit) =>
    (err = "none" /\ MarkerCount(baseFile, LastMarker) = 2)

(***************************************************************************)
(* The names a region defines, before and after a run.                     *)
(***************************************************************************)

\* the names the file of the last update function defines in its region:
\* enum kinds, opcode names, or the opnames of the blocks
RegionNames(base, ops) ==
  IF lastOp = "update_td_op_definitions" THEN Range(BlockNames(ops))
  ELSE Bind(SplitAll(base, <<LastMarker>>)[2], LAMBDA region :
         IF lastOp = "update_td_enum_attrs"
         THEN Range(ExistingKinds(region))
         ELSE Range(ExistingOpcodes(region)))

\* the names the grammar lets the last update function generate: the operand
\* kinds that have enumerants, or the opnames of the instructions
GrammarNames ==
  IF lastOp = "update_td_enum_attrs"
  THEN {OperandKinds[i].kind : i \in
          {j \in 1..Len(OperandKinds) :
             "enumerants" \in DOMAIN OperandKinds[j]}}
  ELSE {Instructions[i].opname : i \in 1..Len(Instructions)}

\* an update function has returned without an error
UpdateSucceeded == pc \in {"ran", "reran"} /\ err = "none"

\* C11 as stated: after every successful run the names of the region are the
\* names it had before the run together with the requested names the grammar
\* defines, so that no name of the region is lost.
C11_NamesKeptAlive ==
  UpdateSucceeded =>
    RegionNames(baseFile, opsFile)
      = RegionNames(prevBase, prevOps)
          \cup (Range(lastArgs.filter_list) \cap GrammarNames)

\* C11: after every successful run the names of the region are those of the
\* names it had before and of the requested names that the grammar defines;
\* a name of the region that the grammar does not define is not written
\* again.
C11_GrammarNamesKeptAlive ==
  UpdateSucceeded =>
    RegionNames(baseFile, opsFile)
      = (RegionNames(prevBase, prevOps) \cup Range(lastArgs.filter_list))
          \cap GrammarNames

\* a region with a kind the grammar defines and one it does not, a request
\* for a third kind: the first is kept, the second lost, the third added
C11_Witness ==
  /\ UpdateSucceeded /\ lastOp = "update_td_enum_attrs"
  /\ RegionNames(prevBase, prevOps) = {"StorageClass", "Dim"}
  /\ lastArgs.filter_list = <<"MemoryAccess">>
  /\ RegionNames(baseFile, opsFile) = {"StorageClass", "MemoryAccess"}

\* C13: the header and the footer a successful update_td_op_definitions
\* writes are disjoint parts of the file it read, so that together they are
\* no longer than that file and its text outside the blocks is written once.
C13_HeaderFooterDisjoint ==
  OpDefsWritten =>
    Bind(Outside(opsFile, AUTOGEN_OP_DEF_SEPARATOR), LAMBDA written :
      Len(written[1]) + Len(written[2]) <= Len(prevOps))

(***************************************************************************)
(* __main__: the modes of one command line, one after the other.           *)
(***************************************************************************)

\* the command lines: the flags given, and their values
CommandLines ==
  {[given |-> flags, new_enum |-> enum, new_opcodes |-> opcodes,
    new_inst |-> inst, inst_category |-> "Op"] :
     flags \in SUBSET {"base_td_path", "op_td_path", "new_enum",
                       "new_opcodes", "new_inst"},
     enum \in {"", "StorageClass"},
     opcodes \in {<<>>, <<"OpLoad">>},
     inst \in {<<"OpLoad">>, <<"OpControlBarrier">>}}

MainBaseFiles ==
  {BaseFileOf(2, <<>>, 2, <<>>), BaseFileOf(2, <<"StorageClass">>, 1, <<>>),
   BaseFileOf(0, <<>>, 2, <<"OpNop">>)}

MainOpsFiles ==
  {OpsFileOf(<<>>), OpsFileOf(<<WrittenBlock("Store", CarefulFields)>>)}

InitMain ==
  /\ baseFile \in MainBaseFiles /\ opsFile \in MainOpsFiles
  /\ pc = "parse" /\ err = "none" /\ lastOp = "none" /\ lastArgs = <<>>
  /\ prevBase = baseFile /\ prevOps = opsFile
  /\ startBase = baseFile /\ startOps = opsFile
  /\ modes = <<>> /\ inp = <<>> /\ out = <<>>

\* args = cli_parser.parse_args()
ParseArgs ==
  /\ pc = "parse"
  /\ pc' = "new_enum"
  /\ modes' \in CommandLines
  /\ UNCHANGED <<baseFile, opsFile, err, lastOp, lastArgs, prevBase, prevOps,
                 startBase, startOps, inp, out>>

\* what one mode of the command line leaves behind: the process goes on to
\* the next mode, or ends on the error
ModeStep(base, ops, error, name, next) ==
  /\ baseFile' = base /\ opsFile' = ops
  /\ err' = error /\ lastOp' = name
  /\ prevBase' = baseFile /\ prevOps' = opsFile
  /\ pc' = IF error = "none" THEN next ELSE "aborted"
  /\ UNCHANGED <<lastArgs, startBase, startOps, modes, inp, out>>

\* if args.new_enum is not None: ...
MainEnum ==
  /\ pc = "new_enum"
  /\ IF "new_enum" \notin modes.given
     THEN ModeStep(baseFile, opsFile, "none", "none", "new_opcodes")
     ELSE IF "base_td_path" \notin modes.given
     THEN ModeStep(baseFile, opsFile, "AssertionError", "none",
                   "new_opcodes")
     ELSE \E result \in {update_td_enum_attrs(
                             baseFile, OperandKinds,
                             IF modes.new_enum # "" THEN <<modes.new_enum>>
                             ELSE <<>>)} :
            ModeStep(FileAfter(baseFile, result), opsFile, result.err,
                     "update_td_enum_attrs", "new_opcodes")

\* if args.new_opcodes is not None: ...
MainOpcodes ==
  /\ pc = "new_opcodes"
  /\ IF "new_opcodes" \notin modes.given
     THEN ModeStep(baseFile, opsFile, "none", "none", "new_inst")
     ELSE IF "base_td_path" \notin modes.given
     THEN ModeStep(baseFile, opsFile, "AssertionError", "none", "new_inst")
     ELSE \E result \in {update_td_opcodes(baseFile, Instructions,
                                            modes.new_opcodes)} :
            ModeStep(FileAfter(baseFile, result), opsFile, result.err,
                     "update_td_opcodes", "new_inst")

\* if args.new_inst is not None: ...
MainInst ==
  /\ pc = "new_inst"
  /\ IF "new_inst" \notin modes.given
     THEN ModeStep(baseFile, opsFile, "none", "none", "exited")
     ELSE IF "op_td_path" \notin modes.given
     THEN ModeStep(baseFile, opsFile, "AssertionError", "none", "exited")
     ELSE \E result \in {update_td_op_definitions(
                             opsFile, Instructions, Docs, modes.new_inst,
                             modes.inst_category)} :
            ModeStep(baseFile, FileAfter(opsFile, result), result.err,
                     "update_td_op_definitions", "exited")

NextMain == ParseArgs \/ MainEnum \/ MainOpcodes \/ MainInst

SpecMain == InitMain /\ [][NextMain]_vars

\* C4 as stated: when a step of an invocation fails, every file is as it
\* was before the invocation started.
C4_InvocationAtomic ==
  pc = "aborted" => (baseFile = startBase /\ opsFile = startOps)

\* C4, amended: when a step of an invocation fails, every file is as it was
\* when that step began; what the earlier modes wrote stays written.
C4_FailingStepWritesNothing ==
  pc = "aborted" => (baseFile = prevBase /\ opsFile = prevOps)

\* --new-enum wrote the base file, then --new-inst failed on the quantifier
C4_Witness ==
  /\ pc = "aborted"
  /\ lastOp = "update_td_op_definitions" /\ err = QuantifierError
  /\ baseFile # startBase
  /\ opsFile = startOps
====
